---- MODULE Spec2Model ----
(***************************************************************************)
(* Model of the hexdump crate (src/src/imp.rs): the byte sanitizer, the    *)
(* two line renderers writing into a fixed-capacity ArrayString, and the   *)
(* double-ended, exactly-sized Hexdump iterator.                           *)
(*                                                                         *)
(* Text is modelled as the sequence of its UTF-8 bytes, a byte slice as a  *)
(* sequence of numbers in 0..255, Option as a sequence of length 0 (None)  *)
(* or 1 (Some).  A failed buffer write followed by unwrap() is a panic; it *)
(* is recorded in the buffer's "failed" field and ends the call.           *)
(* Numbers are TLC integers, so usize values are modelled below 2^31.      *)
(***************************************************************************)
EXTENDS Integers, Sequences, FiniteSets

----------------------------------------------------------------------------
(* Bounds of the model. *)

\* longest input whose lines are pulled until the iterator is exhausted
MaxLen == 34

\* number of lines pulled from an iterator over one of the long inputs
MaxPulls == 5

----------------------------------------------------------------------------
(* Constants of the program. *)

SEGMENT_LENGTH == 4

CHUNK_LENGTH == 16

NUM_SEGMENTS_PER_CHUNK == (CHUNK_LENGTH + SEGMENT_LENGTH - 1) \div SEGMENT_LENGTH

BUFFER_LENGTH == 64

----------------------------------------------------------------------------
(* Option<T>. *)

None == <<>>

Some(x) == <<x>>

----------------------------------------------------------------------------
(* Text: char, str and the formatting machinery of std::fmt. *)

\* a char written with "{}" is appended as its UTF-8 encoding
EncodeUtf8(c) ==
    IF c < 128 THEN <<c>>
    ELSE <<192 + (c \div 64), 128 + (c % 64)>>

\* one lowercase hexadecimal digit of the LowerHex formatter
HexDigit(d) == IF d < 10 THEN 48 + d ELSE 87 + d

RECURSIVE LowerHexDigits(_)
\* the digits "{:x}" produces: most significant first, no leading zeros
LowerHexDigits(x) ==
    IF x < 16 THEN <<HexDigit(x)>>
    ELSE LowerHexDigits(x \div 16) \o <<HexDigit(x % 16)>>

\* "{:0Wx}": zero-padded on the left to a minimum width, never truncated
FmtLowerHex(x, width) ==
    LET digits == LowerHexDigits(x)
    IN  IF Len(digits) >= width THEN digits
        ELSE [j \in 1..(width - Len(digits)) |-> 48] \o digits

----------------------------------------------------------------------------
(* BufferImpl = ArrayString<[u8; BUFFER_LENGTH]>. *)

BufferImpl_new == [inner |-> <<>>, failed |-> FALSE]

\* buf.write_str(s).unwrap(): all of s is appended, or nothing is and the
\* unwrap panics; after a panic no later write of the call is executed
write_str(buf, s) ==
    IF buf.failed THEN buf
    ELSE IF Len(buf.inner) + Len(s) > BUFFER_LENGTH
         THEN [buf EXCEPT !.failed = TRUE]
         ELSE [buf EXCEPT !.inner = buf.inner \o s]

RECURSIVE write_str_times(_, _, _)
\* for _ in 0..n { buf.write_str(s).unwrap(); }
write_str_times(buf, s, n) ==
    IF n <= 0 THEN buf
    ELSE write_str_times(write_str(buf, s), s, n - 1)

\* Line::new(buf), or a panic when one of the writes failed
Outcome(buf) == [panicked |-> buf.failed,
                 line |-> IF buf.failed THEN <<>> ELSE buf.inner]

----------------------------------------------------------------------------
(* sanitize_byte *)

\* a plausible slip: DEL passes the upper comparison
sanitize_byte_le(byte) ==
    IF 32 <= byte /\ byte <= 127 THEN byte ELSE 46

\* a plausible slip: the space is dropped by a strict lower comparison
sanitize_byte_lt(byte) ==
    IF 32 < byte /\ byte < 127 THEN byte ELSE 46

\* the char returned for a byte, as its code point ('.' is 46)
sanitize_byte(byte) ==
    IF 32 <= byte /\ byte < 127 THEN byte ELSE 46

----------------------------------------------------------------------------
(* hexdump_summary *)

\* a plausible slip: the separator loop starts at 0 instead of 1
hexdump_summary_from0(len) ==
    LET b1 == write_str(BufferImpl_new, <<32, 32, 32, 32>>)
        b2 == write_str_times(b1, <<32, 32, 32>>, CHUNK_LENGTH)
        b3 == write_str_times(b2, <<32>>, NUM_SEGMENTS_PER_CHUNK)
        b4 == write_str(b3, FmtLowerHex(len, 8))
    IN  Outcome(b4)

hexdump_summary(len) ==
    LET b1 == write_str(BufferImpl_new, <<32, 32, 32, 32>>)
        b2 == write_str_times(b1, <<32, 32, 32>>, CHUNK_LENGTH)
        b3 == write_str_times(b2, <<32>>, NUM_SEGMENTS_PER_CHUNK - 1)
        b4 == write_str(b3, FmtLowerHex(len, 8))
    IN  Outcome(b4)

----------------------------------------------------------------------------
(* hexdump_chunk *)

\* chunk.chunks(SEGMENT_LENGTH), fully iterated: the segments in order
SegmentsOf(chunk) ==
    LET n == (Len(chunk) + SEGMENT_LENGTH - 1) \div SEGMENT_LENGTH
    IN  [s \in 1..n |->
            SubSeq(chunk, (s - 1) * SEGMENT_LENGTH + 1,
                   IF s * SEGMENT_LENGTH < Len(chunk)
                   THEN s * SEGMENT_LENGTH ELSE Len(chunk))]

RECURSIVE WriteHexBytes(_, _, _)
\* for &b in segment { write!(buf, "{:02x}", b).unwrap(); }
WriteHexBytes(buf, segment, j) ==
    IF j > Len(segment) THEN buf
    ELSE WriteHexBytes(write_str(buf, FmtLowerHex(segment[j], 2)), segment, j + 1)

RECURSIVE WriteSegments(_, _, _)
\* the loop over the segments: a space before every segment but the first
WriteSegments(buf, segments, s) ==
    IF s > Len(segments) THEN buf
    ELSE LET sep == IF s = 1 THEN buf ELSE write_str(buf, <<32>>)
         IN  WriteSegments(WriteHexBytes(sep, segments[s], 1), segments, s + 1)

RECURSIVE WriteSanitized(_, _, _)
\* for &b in chunk { write!(buf, "{}", sanitize_byte(b)).unwrap(); }
WriteSanitized(buf, chunk, j) ==
    IF j > Len(chunk) THEN buf
    ELSE WriteSanitized(write_str(buf, EncodeUtf8(sanitize_byte(chunk[j]))),
                        chunk, j + 1)

RECURSIVE WriteMissingSegments(_, _)
\* for _ in num_segments..NUM_SEGMENTS_PER_CHUNK { 4 x "  ", then " " }
WriteMissingSegments(buf, n) ==
    IF n <= 0 THEN buf
    ELSE WriteMissingSegments(
             write_str(write_str_times(buf, <<32, 32>>, SEGMENT_LENGTH), <<32>>),
             n - 1)

\* a plausible slip: the padding of the short last segment is left out
hexdump_chunk_nopad(i, chunk) ==
    LET offset == i * CHUNK_LENGTH
        segments == SegmentsOf(chunk)
        num_segments == Len(segments)
        b1 == write_str(BufferImpl_new, <<124>>)
        b2 == WriteSegments(b1, segments, 1)
        b3 == write_str(b2, <<124, 32>>)
        b5 == WriteMissingSegments(b3, NUM_SEGMENTS_PER_CHUNK - num_segments)
        b6 == WriteSanitized(b5, chunk, 1)
        b7 == write_str_times(b6, <<32>>, CHUNK_LENGTH - Len(chunk))
        b8 == write_str(b7, <<32>>)
        b9 == write_str(b8, FmtLowerHex(offset, 8))
    IN  Outcome(b9)

\* a plausible slip: the space is written before the closing delimiter
hexdump_chunk_trailing(i, chunk) ==
    LET offset == i * CHUNK_LENGTH
        segments == SegmentsOf(chunk)
        num_segments == Len(segments)
        num_bytes == IF num_segments = 0 THEN 0 ELSE Len(segments[num_segments])
        b1 == write_str(BufferImpl_new, <<124>>)
        b2 == WriteSegments(b1, segments, 1)
        b3 == write_str(b2, <<32, 124>>)
        b4 == write_str_times(b3, <<32, 32>>, SEGMENT_LENGTH - num_bytes)
        b5 == WriteMissingSegments(b4, NUM_SEGMENTS_PER_CHUNK - num_segments)
        b6 == WriteSanitized(b5, chunk, 1)
        b7 == write_str_times(b6, <<32>>, CHUNK_LENGTH - Len(chunk))
        b8 == write_str(b7, <<32>>)
        b9 == write_str(b8, FmtLowerHex(offset, 8))
    IN  Outcome(b9)

\* a plausible slip: the loop over the missing segments starts at 0
hexdump_chunk_allmissing(i, chunk) ==
    LET offset == i * CHUNK_LENGTH
        segments == SegmentsOf(chunk)
        num_segments == Len(segments)
        num_bytes == IF num_segments = 0 THEN 0 ELSE Len(segments[num_segments])
        b1 == write_str(BufferImpl_new, <<124>>)
        b2 == WriteSegments(b1, segments, 1)
        b3 == write_str(b2, <<124, 32>>)
        b4 == write_str_times(b3, <<32, 32>>, SEGMENT_LENGTH - num_bytes)
        b5 == WriteMissingSegments(b4, NUM_SEGMENTS_PER_CHUNK)
        b6 == WriteSanitized(b5, chunk, 1)
        b7 == write_str_times(b6, <<32>>, CHUNK_LENGTH - Len(chunk))
        b8 == write_str(b7, <<32>>)
        b9 == write_str(b8, FmtLowerHex(offset, 8))
    IN  Outcome(b9)

\* num_bytes is the length of the last segment iterated, 0 when there is none
hexdump_chunk(i, chunk) ==
    LET offset == i * CHUNK_LENGTH
        segments == SegmentsOf(chunk)
        num_segments == Len(segments)
        num_bytes == IF num_segments = 0 THEN 0 ELSE Len(segments[num_segments])
        b1 == write_str(BufferImpl_new, <<124>>)
        b2 == WriteSegments(b1, segments, 1)
        b3 == write_str(b2, <<124, 32>>)
        b4 == write_str_times(b3, <<32, 32>>, SEGMENT_LENGTH - num_bytes)
        b5 == WriteMissingSegments(b4, NUM_SEGMENTS_PER_CHUNK - num_segments)
        b6 == WriteSanitized(b5, chunk, 1)
        b7 == write_str_times(b6, <<32>>, CHUNK_LENGTH - Len(chunk))
        b8 == write_str(b7, <<32>>)
        b9 == write_str(b8, FmtLowerHex(offset, 8))
    IN  Outcome(b9)

----------------------------------------------------------------------------
(* The input: the borrowed byte slice.  Its bytes are given by a rule, so   *)
(* that a long input needs no long sequence: byte i is lit[i+1] while the   *)
(* literal prefix lasts, and (start + i * stride) mod 256 after it.         *)

ByteAt(input, i) ==
    IF i < Len(input.lit) THEN input.lit[i + 1]
    ELSE (input.start + (i % 256) * input.stride) % 256

\* the bytes of the sub-slice input[v.off .. v.off + v.len]
SliceBytes(input, v) == [j \in 1..v.len |-> ByteAt(input, v.off + j - 1)]

----------------------------------------------------------------------------
(* slice::Chunks and iter::Enumerate, as used through self.chunks. *)

\* bytes.chunks(size): the remaining slice v and the chunk size
Chunks_new(v, size) == [v |-> v, chunk_size |-> size]

Chunks_len(c) ==
    IF c.v.len = 0 THEN 0
    ELSE (c.v.len \div c.chunk_size)
         + (IF c.v.len % c.chunk_size > 0 THEN 1 ELSE 0)

\* the first min(len, chunk_size) bytes are split off the front
Chunks_next(c) ==
    IF c.v.len = 0 THEN [iter |-> c, ret |-> None]
    ELSE LET sz == IF c.v.len < c.chunk_size THEN c.v.len ELSE c.chunk_size
         IN  [iter |-> [c EXCEPT !.v = [off |-> c.v.off + sz,
                                        len |-> c.v.len - sz]],
              ret |-> Some([off |-> c.v.off, len |-> sz])]

\* the remainder (or a whole chunk when there is none) is split off the back
Chunks_next_back(c) ==
    IF c.v.len = 0 THEN [iter |-> c, ret |-> None]
    ELSE LET remainder == c.v.len % c.chunk_size
             sz == IF remainder # 0 THEN remainder ELSE c.chunk_size
         IN  [iter |-> [c EXCEPT !.v = [off |-> c.v.off,
                                        len |-> c.v.len - sz]],
              ret |-> Some([off |-> c.v.off + c.v.len - sz, len |-> sz])]

Enumerate_new(iter) == [iter |-> iter, count |-> 0]

\* the item is paired with the running count
Enumerate_next(e) ==
    LET r == Chunks_next(e.iter)
    IN  IF r.ret = None THEN [iter |-> e, ret |-> None]
        ELSE [iter |-> [iter |-> r.iter, count |-> e.count + 1],
              ret |-> Some(<<e.count, r.ret[1]>>)]

\* the item is paired with count + the number of items left in front of it
Enumerate_next_back(e) ==
    LET r == Chunks_next_back(e.iter)
    IN  IF r.ret = None THEN [iter |-> e, ret |-> None]
        ELSE [iter |-> [iter |-> r.iter, count |-> e.count],
              ret |-> Some(<<e.count + Chunks_len(r.iter), r.ret[1]>>)]

----------------------------------------------------------------------------
(* Hexdump *)

\* a plausible slip: the summary flag starts out set
Hexdump_new_done(input) ==
    [len |-> input.len,
     chunks |-> Enumerate_new(Chunks_new([off |-> 0, len |-> input.len],
                                         CHUNK_LENGTH)),
     summary_done |-> TRUE]

Hexdump_new(input) ==
    [len |-> input.len,
     chunks |-> Enumerate_new(Chunks_new([off |-> 0, len |-> input.len],
                                         CHUNK_LENGTH)),
     summary_done |-> FALSE]

\* hexdump_iter
hexdump_iter(input) == Hexdump_new(input)

\* a plausible slip: the flag is tested but never set
once_unset(flag, f) ==
    IF ~flag THEN [once |-> flag, ran |-> TRUE, ret |-> Some(f.line),
                   panicked |-> f.panicked]
    ELSE [once |-> flag, ran |-> FALSE, ret |-> None, panicked |-> FALSE]

\* once(&mut flag, f): f is the outcome the closure has if it is run
once(flag, f) ==
    IF ~flag THEN [once |-> TRUE, ran |-> TRUE, ret |-> Some(f.line),
                   panicked |-> f.panicked]
    ELSE [once |-> flag, ran |-> FALSE, ret |-> None, panicked |-> FALSE]

\* .map(hexdump_chunk) on an item (i, chunk) of self.chunks
MapChunk(input, item) == hexdump_chunk(item[1], SliceBytes(input, item[2]))

\* a plausible slip: the length does not look at the summary flag
Hexdump_len_plus1(it) == Chunks_len(it.chunks.iter) + 1

Hexdump_len(it) ==
    Chunks_len(it.chunks.iter) + (IF ~it.summary_done THEN 1 ELSE 0)

Hexdump_size_hint(it) == <<Hexdump_len(it), Some(Hexdump_len(it))>>

\* the result of a call: the iterator after it, the value returned, and
\* whether the call panicked instead of returning
Hexdump_next(input, it) ==
    LET r == Enumerate_next(it.chunks)
    IN  IF r.ret # None
        THEN LET o == MapChunk(input, r.ret[1])
             IN  [it |-> [it EXCEPT !.chunks = r.iter],
                  ret |-> IF o.panicked THEN None ELSE Some(o.line),
                  panicked |-> o.panicked]
        ELSE LET s == once(it.summary_done, hexdump_summary(it.len))
             IN  [it |-> [it EXCEPT !.chunks = r.iter, !.summary_done = s.once],
                  ret |-> IF s.panicked THEN None ELSE s.ret,
                  panicked |-> s.panicked]

\* a plausible slip: the chunks are taken from the front
Hexdump_next_back_front(input, it) ==
    LET s == once(it.summary_done, hexdump_summary(it.len))
    IN  IF s.ran
        THEN [it |-> [it EXCEPT !.summary_done = s.once],
              ret |-> IF s.panicked THEN None ELSE s.ret,
              panicked |-> s.panicked]
        ELSE LET r == Enumerate_next(it.chunks)
             IN  IF r.ret = None
                 THEN [it |-> [it EXCEPT !.chunks = r.iter],
                       ret |-> None, panicked |-> FALSE]
                 ELSE LET o == MapChunk(input, r.ret[1])
                      IN  [it |-> [it EXCEPT !.chunks = r.iter],
                           ret |-> IF o.panicked THEN None ELSE Some(o.line),
                           panicked |-> o.panicked]

Hexdump_next_back(input, it) ==
    LET s == once(it.summary_done, hexdump_summary(it.len))
    IN  IF s.ran
        THEN [it |-> [it EXCEPT !.summary_done = s.once],
              ret |-> IF s.panicked THEN None ELSE s.ret,
              panicked |-> s.panicked]
        ELSE LET r == Enumerate_next_back(it.chunks)
             IN  IF r.ret = None
                 THEN [it |-> [it EXCEPT !.chunks = r.iter],
                       ret |-> None, panicked |-> FALSE]
                 ELSE LET o == MapChunk(input, r.ret[1])
                      IN  [it |-> [it EXCEPT !.chunks = r.iter],
                           ret |-> IF o.panicked THEN None ELSE Some(o.line),
                           panicked |-> o.panicked]

----------------------------------------------------------------------------
(* The state. *)

VARIABLES
    bytes,      \* the input the iterator borrows
    it,         \* the Hexdump value
    front,      \* the lines next() has returned, in pull order
    back,       \* the lines next_back() has returned, in pull order
    last,       \* the last call made on the iterator and what it returned
    panicked,   \* whether a call on the iterator panicked
    call,       \* a call of one of the free functions, with its arguments
    out         \* what that call returned: None before it is made

vars == <<bytes, it, front, back, last, panicked, call, out>>

----------------------------------------------------------------------------
(* The inputs of the iterator. *)

Starts == {0, 30, 65, 122, 243}

Strides == {1, 51}

\* the example of the crate documentation: b"12345\0\r\n\t .abcdef"
DocBytes == <<49, 50, 51, 52, 53, 0, 13, 10, 9, 32, 46, 97, 98, 99, 100, 101, 102>>

DocInput == [len |-> Len(DocBytes), lit |-> DocBytes, start |-> 0, stride |-> 0]

ShortInputs ==
    {[len |-> L, lit |-> <<>>, start |-> s, stride |-> d] :
        L \in 0..MaxLen, s \in Starts, d \in Strides}

\* lengths whose offsets need up to 8 hexadecimal digits
LongLens == {4660, 11259375, 2147483632, 2147483647}

LongInputs ==
    {[len |-> L, lit |-> <<>>, start |-> s, stride |-> 51] :
        L \in LongLens, s \in {65, 243}}

Inputs == ShortInputs \cup {DocInput} \cup LongInputs

EmptyInput == [len |-> 0, lit |-> <<>>, start |-> 0, stride |-> 0]

NoCall == [fn |-> "none"]

\* a long input is pulled MaxPulls times, a short one until it is exhausted
CanPull ==
    /\ ~panicked
    /\ \/ bytes.len <= MaxLen
       \/ bytes = DocInput
       \/ Len(front) + Len(back) < MaxPulls

Init ==
    /\ bytes \in Inputs
    /\ it = hexdump_iter(bytes)
    /\ front = <<>>
    /\ back = <<>>
    /\ last = <<"new", None>>
    /\ panicked = FALSE
    /\ call = NoCall
    /\ out = None

\* one call of it.next()
next ==
    /\ CanPull
    /\ LET r == Hexdump_next(bytes, it)
       IN  /\ it' = r.it
           /\ panicked' = r.panicked
           /\ last' = <<"next", r.ret>>
           /\ front' = IF r.ret # None THEN Append(front, r.ret[1]) ELSE front
    /\ UNCHANGED <<bytes, back, call, out>>

\* one call of it.next_back()
next_back ==
    /\ CanPull
    /\ LET r == Hexdump_next_back(bytes, it)
       IN  /\ it' = r.it
           /\ panicked' = r.panicked
           /\ last' = <<"next_back", r.ret>>
           /\ back' = IF r.ret # None THEN Append(back, r.ret[1]) ELSE back
    /\ UNCHANGED <<bytes, front, call, out>>

Next == next \/ next_back

Spec == Init /\ [][Next]_vars

----------------------------------------------------------------------------
(* The free functions, each applied once to arguments drawn from a set. *)

\* chunk contents: n bytes going up from a start value
ChunkPattern(n, s, d) == [j \in 1..n |-> (s + (j - 1) * d) % 256]

ChunkIndexes == {0, 1, 11259375, 134217727}

SummaryLens == {0, 1, 17, 255, 4660, 11259375, 2147483647}

FnCalls ==
    {[fn |-> "sanitize_byte", byte |-> b] : b \in 0..255}
    \cup {[fn |-> "hexdump_chunk", i |-> i, chunk |-> ChunkPattern(n, s, d)] :
            i \in ChunkIndexes, n \in 0..CHUNK_LENGTH,
            s \in {0, 26, 97, 120, 250}, d \in {1, 17}}
    \cup {[fn |-> "hexdump_summary", len |-> L] : L \in SummaryLens}

InitFn ==
    /\ bytes = EmptyInput
    /\ it = hexdump_iter(EmptyInput)
    /\ front = <<>>
    /\ back = <<>>
    /\ last = <<"new", None>>
    /\ panicked = FALSE
    /\ call \in FnCalls
    /\ out = None

CallSanitizeByte ==
    /\ call.fn = "sanitize_byte"
    /\ out = None
    /\ out' = Some(sanitize_byte(call.byte))
    /\ UNCHANGED <<bytes, it, front, back, last, panicked, call>>

CallHexdumpChunk ==
    /\ call.fn = "hexdump_chunk"
    /\ out = None
    /\ out' = Some(hexdump_chunk(call.i, call.chunk))
    /\ UNCHANGED <<bytes, it, front, back, last, panicked, call>>

CallHexdumpSummary ==
    /\ call.fn = "hexdump_summary"
    /\ out = None
    /\ out' = Some(hexdump_summary(call.len))
    /\ UNCHANGED <<bytes, it, front, back, last, panicked, call>>

NextFn == CallSanitizeByte \/ CallHexdumpChunk \/ CallHexdumpSummary

SpecFn == InitFn /\ [][NextFn]_vars

----------------------------------------------------------------------------
(* Forward-only consumption, and the parsing done by the summary test. *)

RECURSIVE Collect(_, _)
\* the lines a for loop over the iterator sees: next() until None
Collect(input, h) ==
    LET r == Hexdump_next(input, h)
    IN  IF r.panicked \/ r.ret = None THEN <<>>
        ELSE <<r.ret[1]>> \o Collect(input, r.it)

\* hexdump(bytes): the lines printed, in order
hexdump(input) == Collect(input, hexdump_iter(input))

RECURSIVE TrimStart(_)
TrimStart(s) ==
    IF s # <<>> /\ Head(s) \in {9, 10, 11, 12, 13, 32} THEN TrimStart(Tail(s)) ELSE s

RECURSIVE TrimEnd(_)
TrimEnd(s) ==
    IF s # <<>> /\ s[Len(s)] \in {9, 10, 11, 12, 13, 32}
    THEN TrimEnd(SubSeq(s, 1, Len(s) - 1)) ELSE s

\* str::trim on ASCII text
Trim(s) == TrimEnd(TrimStart(s))

\* the value of one digit in radix 16, -1 for any other character
ToDigit16(c) ==
    IF c >= 48 /\ c <= 57 THEN c - 48
    ELSE IF c >= 97 /\ c <= 102 THEN c - 87
    ELSE IF c >= 65 /\ c <= 70 THEN c - 55
    ELSE -1

RECURSIVE ParseDigits16(_, _)
ParseDigits16(s, acc) ==
    IF s = <<>> THEN Some(acc)
    ELSE IF ToDigit16(Head(s)) < 0 THEN None
    ELSE ParseDigits16(Tail(s), acc * 16 + ToDigit16(Head(s)))

\* usize::from_str_radix(s, 16).ok(): an optional '+', then one digit or more
FromStrRadix16(s) ==
    LET body == IF s # <<>> /\ Head(s) = 43 THEN Tail(s) ELSE s
    IN  IF body = <<>> THEN None ELSE ParseDigits16(body, 0)

----------------------------------------------------------------------------
(* The vocabulary of the properties: the layout as the documentation       *)
(* describes it, column by column (columns count from 0).                  *)

\* ceil(L / 16)
NumChunks(L) == (L \div 16) + (IF L % 16 = 0 THEN 0 ELSE 1)

\* the number of lines of a dump of L bytes
NumLines(L) == NumChunks(L) + 1

LowerHexChars == <<48, 49, 50, 51, 52, 53, 54, 55, 56, 57, 97, 98, 99, 100, 101, 102>>

Pow16 == <<1, 16, 256, 4096, 65536, 1048576, 16777216, 268435456>>

\* the character at a column of a line
Col(line, c) == line[c + 1]

\* columns c .. c+7 hold x as 8 zero-padded lowercase hexadecimal digits
EightHexAt(line, c, x) ==
    \A p \in 0..7 : Col(line, c + p) = LowerHexChars[((x \div Pow16[8 - p]) % 16) + 1]

\* columns from .. to are blank
BlankFromTo(line, from, to) == \A c \in from..to : Col(line, c) = 32

Printable(b) == b >= 32 /\ b < 127

\* the bytes of chunk k of the input: positions 16k .. min(16k+16, L)-1
ChunkOf(input, k) ==
    LET n == IF input.len - 16 * k < 16 THEN input.len - 16 * k ELSE 16
    IN  [j \in 1..n |-> ByteAt(input, 16 * k + j - 1)]

\* the layout of the line of chunk k
IsChunkLine(line, k, chunk) ==
    LET n == Len(chunk)
        groups == (n + 3) \div 4
        close == 2 * n + groups
    IN  /\ Len(line) = 63
        /\ Col(line, 0) = 124
        /\ \A j \in 0..(n - 1) :
              LET c == 1 + 2 * j + (j \div 4)
              IN  /\ Col(line, c) = LowerHexChars[(chunk[j + 1] \div 16) + 1]
                  /\ Col(line, c + 1) = LowerHexChars[(chunk[j + 1] % 16) + 1]
        /\ \A g \in 1..(groups - 1) : Col(line, 9 * g) = 32
        /\ Col(line, close) = 124
        /\ BlankFromTo(line, close + 1, 37)
        /\ \A j \in 0..(n - 1) :
              Col(line, 38 + j) = IF Printable(chunk[j + 1]) THEN chunk[j + 1] ELSE 46
        /\ BlankFromTo(line, 38 + n, 54)
        /\ EightHexAt(line, 55, 16 * k)

\* the layout of the summary line of an input of L bytes
IsSummaryLine(line, L) ==
    /\ Len(line) = 63
    /\ BlankFromTo(line, 0, 54)
    /\ EightHexAt(line, 55, L)

\* a line opened by the delimiter is a chunk line
StartsWithBar(line) == line # <<>> /\ line[1] = 124

Reverse(s) == [j \in 1..Len(s) |-> s[Len(s) + 1 - j]]

Count(x, s) == Cardinality({j \in 1..Len(s) : s[j] = x})

Range(s) == {s[j] : j \in 1..Len(s)}

\* the lines yielded so far, from either end
Yielded == front \o back

\* only next() has been called so far
ForwardOnly == back = <<>>

\* a call has returned None
Exhausted == last[1] # "new" /\ last[2] = None /\ ~panicked

\* the two lines the crate documentation prints for its example
DocLine1 == <<124, 51, 49, 51, 50, 51, 51, 51, 52, 32, 51, 53, 48, 48, 48, 100, 48, 97,
              32, 48, 57, 50, 48, 50, 101, 54, 49, 32, 54, 50, 54, 51, 54, 52, 54, 53,
              124, 32, 49, 50, 51, 52, 53, 46, 46, 46, 46, 32, 46, 97, 98, 99, 100, 101,
              32, 48, 48, 48, 48, 48, 48, 48, 48>>

DocLine2 == <<124, 54, 54, 124>> \o [j \in 1..34 |-> 32] \o <<102>>
            \o [j \in 1..16 |-> 32] \o <<48, 48, 48, 48, 48, 48, 49, 48>>

DocLine3 == [j \in 1..55 |-> 32] \o <<48, 48, 48, 48, 48, 48, 49, 49>>

----------------------------------------------------------------------------
(* C1: in forward consumption the k-th line renders chunk k, the bytes at   *)
(* 16k .. min(16k+16, L)-1, in the documented layout: '|', the bytes as two *)
(* lowercase hex digits in groups of 4 separated by one space, '|', blanks  *)
(* up to column 38, the sanitized bytes padded to 16 columns, a space, and  *)
(* 16k as 8 zero-padded lowercase hex digits; the documentation's example   *)
(* gives the two lines the documentation shows.                             *)
C1_ChunkLineLayout ==
    /\ ForwardOnly =>
          \A k \in 0..(Len(front) - 1) :
              k < NumChunks(bytes.len) => IsChunkLine(front[k + 1], k, ChunkOf(bytes, k))
    /\ (bytes = DocInput /\ ForwardOnly /\ Len(front) >= 2) =>
          front[1] = DocLine1 /\ front[2] = DocLine2

C1_Witness ==
    /\ bytes = DocInput
    /\ ForwardOnly
    /\ Len(front) = 3

(* C2: the last line of forward consumption is the summary: blanks, then L  *)
(* as 8 zero-padded lowercase hex digits starting at column 55; its trimmed *)
(* text parses as hexadecimal to L; for the empty input it is the only line *)
(* and reads 00000000.  The same holds of the summary pulled from the back.  *)
C2_SummaryLine ==
    /\ (ForwardOnly /\ Exhausted) =>
          /\ front # <<>>
          /\ IsSummaryLine(front[Len(front)], bytes.len)
          /\ FromStrRadix16(Trim(front[Len(front)])) = Some(bytes.len)
          /\ bytes.len = 0 =>
                front = << [j \in 1..55 |-> 32] \o [j \in 1..8 |-> 48] >>
          /\ bytes = DocInput => front[Len(front)] = DocLine3
    /\ back # <<>> =>
          /\ IsSummaryLine(back[1], bytes.len)
          /\ FromStrRadix16(Trim(back[1])) = Some(bytes.len)

C2_Witness ==
    /\ ForwardOnly /\ Exhausted
    /\ bytes.len = 33
    /\ Len(front) = 4

(* C3: a fresh iterator reports len() = ceil(L/16) + 1, and consuming it    *)
(* with next() until None yields that many lines; the empty input gives one *)
(* line and no chunk line.                                                  *)
C3_LineCount ==
    /\ last[1] = "new" => Hexdump_len(it) = NumLines(bytes.len)
    /\ (ForwardOnly /\ Exhausted) =>
          /\ Len(front) = NumLines(bytes.len)
          /\ bytes.len = 0 => (Len(front) = 1 /\ ~StartsWithBar(front[1]))

C3_Witness ==
    /\ ForwardOnly /\ Exhausted
    /\ bytes.len = 17
    /\ Len(front) = 3

(* C4: under every interleaving of next() and next_back() no line is        *)
(* yielded twice, and once a call has returned None the lines yielded are,  *)
(* as a multiset, those of forward-only consumption, each exactly once:     *)
(* ceil(L/16) chunk lines and one summary.                                  *)
C4_EachLineOnce ==
    /\ \A x \in Range(Yielded) : Count(x, Yielded) = 1
    /\ Count(TRUE, [j \in 1..Len(Yielded) |-> ~StartsWithBar(Yielded[j])]) <= 1
    /\ Exhausted =>
          /\ \A x \in Range(Yielded) \cup Range(hexdump(bytes)) :
                Count(x, Yielded) = 1 /\ Count(x, hexdump(bytes)) = 1
          /\ Len(Yielded) = NumLines(bytes.len)
          /\ Count(TRUE, [j \in 1..Len(Yielded) |-> StartsWithBar(Yielded[j])])
                = NumChunks(bytes.len)

C4_Witness ==
    /\ Exhausted
    /\ bytes.len = 33
    /\ Len(front) = 2
    /\ Len(back) = 2

(* C5: len() and both bounds of size_hint() always equal the number of      *)
(* lines not yet yielded, which is the number of chunks left plus 1 while   *)
(* the summary is still to come; a call that yields a line lowers len() by  *)
(* exactly 1, and a call returns None exactly when len() is 0.              *)
C5_LenInvariant ==
    LET chunksLeft == NumChunks(bytes.len)
                      - Count(TRUE, [j \in 1..Len(Yielded) |-> StartsWithBar(Yielded[j])])
        summaryLeft == IF \E j \in 1..Len(Yielded) : ~StartsWithBar(Yielded[j])
                       THEN 0 ELSE 1
    IN  /\ Hexdump_len(it) = NumLines(bytes.len) - Len(Yielded)
        /\ Hexdump_len(it) = chunksLeft + summaryLeft
        /\ Hexdump_size_hint(it)
              = <<NumLines(bytes.len) - Len(Yielded), Some(NumLines(bytes.len) - Len(Yielded))>>

C5_LenStep ==
    /\ (last'[2] = None) <=> (Hexdump_len(it) = 0)
    /\ last'[2] # None => Hexdump_len(it') = Hexdump_len(it) - 1
    /\ last'[2] = None => Hexdump_len(it') = 0

(* C5: the length invariant holds in every state and every call changes   *)
(* len() as stated: by 1 when a line is yielded, None exactly at 0.        *)
C5_ExactSize == [](C5_LenInvariant) /\ [][C5_LenStep]_vars

C5_Witness ==
    /\ Exhausted
    /\ last[1] = "next_back"
    /\ Len(front) = 2
    /\ Len(back) = 2
    /\ Hexdump_len(it) = 0

(* C6: no call panics on a failed buffer write, and every line yielded, a   *)
(* short final chunk and the summary included, is as long as the one line   *)
(* of the empty input: 63 characters, within the 64 of the buffer.          *)
C6_UniformWidth ==
    /\ ~panicked
    /\ \A j \in 1..Len(Yielded) :
          /\ Len(Yielded[j]) = Len(hexdump(EmptyInput)[1])
          /\ Len(Yielded[j]) = 63
          /\ Len(Yielded[j]) <= BUFFER_LENGTH

C6_Witness ==
    /\ Exhausted
    /\ bytes.len = 33
    /\ Len(front) = 3
    /\ Len(back) = 1

(* C7: every character of every line yielded is ASCII in [0x20, 0x7F).      *)
C7_PrintableOnly ==
    \A j \in 1..Len(Yielded) :
        \A c \in 1..Len(Yielded[j]) : Yielded[j][c] >= 32 /\ Yielded[j][c] < 127

C7_Witness ==
    /\ bytes.start = 122 /\ bytes.stride = 1 /\ bytes.len = 16
    /\ ByteAt(bytes, 5) = 127
    /\ Len(front) = 1
    /\ Len(back) = 1

(* C8: sanitize_byte returns a result for each of the 256 bytes: the byte   *)
(* itself exactly when 0x20 <= byte < 0x7F, and '.' for every other byte.   *)
C8_SanitizeByte ==
    call.fn = "sanitize_byte" =>
        /\ out = None => ENABLED CallSanitizeByte
        /\ out # None =>
              /\ (out[1] = call.byte) <=> Printable(call.byte)
              /\ ~Printable(call.byte) => out[1] = 46
              /\ out[1] \in {46, call.byte}

C8_Witness ==
    /\ call.fn = "sanitize_byte"
    /\ call.byte = 127
    /\ out = Some(46)

(* C9: once exhausted, the lines of next() in pull order followed by those  *)
(* of next_back() in reverse pull order are the forward-only sequence;      *)
(* back-only consumption yields the summary and then the chunk lines from   *)
(* last to first, each with the content and offset of forward consumption;  *)
(* next() yields the summary only when no chunk is left.                    *)
C9_Order ==
    /\ Exhausted => front \o Reverse(back) = hexdump(bytes)
    /\ (front = <<>> /\ back # <<>>) =>
          /\ IsSummaryLine(back[1], bytes.len)
          /\ \A m \in 2..Len(back) :
                LET k == NumChunks(bytes.len) - (m - 1)
                IN  IsChunkLine(back[m], k, ChunkOf(bytes, k))
    /\ (last[1] = "next" /\ last[2] # None /\ ~StartsWithBar(last[2][1])) =>
          Count(TRUE, [j \in 1..Len(Yielded) |-> StartsWithBar(Yielded[j])])
             = NumChunks(bytes.len)

C9_Witness ==
    /\ Exhausted
    /\ bytes.len = 34
    /\ Len(front) = 1
    /\ Len(back) = 3

(* C10 as stated: hexdump_chunk returns a line of the common width, without *)
(* a failed write, for every chunk length from 0 through 16.                *)
C10_Original ==
    (call.fn = "hexdump_chunk" /\ out # None) =>
        /\ ~out[1].panicked
        /\ Len(out[1].line) = 63

(* C10 amended: hexdump_chunk returns a line of the common width (that of   *)
(* the summary line), without a failed write, for every chunk length from 1 *)
(* through 16 and any byte values; for the empty chunk the write of the     *)
(* offset does not fit the buffer and the call panics.                      *)
C10_ChunkNeverFails ==
    (call.fn = "hexdump_chunk" /\ out # None) =>
        /\ Len(call.chunk) >= 1 =>
              /\ ~out[1].panicked
              /\ Len(out[1].line) = 63
              /\ Len(out[1].line) = Len(hexdump_summary(0).line)
              /\ Len(out[1].line) <= BUFFER_LENGTH
        /\ Len(call.chunk) = 0 => out[1].panicked

C10_Witness ==
    /\ call.fn = "hexdump_chunk"
    /\ Len(call.chunk) = 16
    /\ call.i = 134217727
    /\ out # None
    /\ ~out[1].panicked

====
